---- MODULE Spec2Model ----
(***************************************************************************)
(* A model of gmlib.js: the TTL cache returned by Cache(storageType, ttl,  *)
(* quiet), its two storage backends, the shared logging functions and the *)
(* GMXHR.get request helper, all living in one GMLib() call.               *)
(*                                                                         *)
(* Strings the code inspects character by character (keys, prefixes) are   *)
(* sequences of characters.  JavaScript values are named by strings:       *)
(* "undefined", "null", "NaN", and 'x' / 'y' for two string values.        *)
(***************************************************************************)
EXTENDS Integers, Sequences, FiniteSets, TLC

VARIABLES
  now,       \* the clock read by new Date().getTime(), in milliseconds
  debug,     \* the binding of the function debug: "log" or "noop"
  insts,     \* the cache instances constructed so far, in order
  storage,   \* the two storage media: storage[type][backendKey]
  owner,     \* history: the instance whose cache() wrote the entry of a cell (0: none)
  awaiting,  \* the cache() calls suspended at `await value`
  xhr,       \* the GM_xmlhttpRequest started by GMXHR.get: "none" or "pending"
  console,   \* the lines the last step sent to the console
  last       \* the last operation, its arguments and what it returned

vars == <<now, debug, insts, storage, owner, awaiting, xhr, console, last>>

----------------------------------------------------------------------------
(* Bounds of the model *)

MaxInst == 2      \* cache instances constructed
MaxCalls == 2     \* cache() calls suspended at the same time

----------------------------------------------------------------------------
(* Values *)

Undefined == "undefined"
Null == "null"
NaN == "NaN"

NAMESPACE == <<"g", "m", "l", "i", "b", "|">>

\* ttl || 3600 * 24 * 2: the default, in seconds, and the factor to milliseconds
DefaultTtl == 172800
Millis == 1000

\* An argument that may be omitted: a number, or not given at all.
Omitted == [given |-> FALSE, n |-> 0]
Num(n) == [given |-> TRUE, n |-> n]

StorageTypes == {"local", "script"}

\* String.prototype.startsWith
startsWith(s, p) == Len(p) <= Len(s) /\ SubSeq(s, 1, Len(p)) = p

\* JavaScript truthiness of an optional number (undefined, 0 are falsy)
TruthyNum(a) == a.given /\ a.n # 0

\* JavaScript truthiness of an optional string (undefined, "" are falsy)
TruthyStr(s) == Len(s) > 0

----------------------------------------------------------------------------
(* JSON text.  A text is the sequence of the members of the object it      *)
(* encodes; parses = FALSE is a text JSON.parse rejects.                   *)

\* what localStorage[key] / GM_getValue(key) return for a key never set
Absent == [present |-> FALSE, parses |-> FALSE, members |-> <<>>]

\* a variant that writes every member value as null
JsonValue_null(v) == Null

\* JSON.stringify of a member value: NaN is written as null
JsonValue(v) == IF v = NaN THEN Null ELSE v

\* a variant that writes the timestamp and forgets the value
JSONstringify_stamp(t, v) ==
  [present |-> TRUE, parses |-> TRUE, members |-> << <<"stored", t>> >>]

\* JSON.stringify({stored: t, value: v}): a member whose value is undefined is left out
JSONstringify(t, v) ==
  [present |-> TRUE, parses |-> TRUE,
   members |-> IF v = Undefined
               THEN << <<"stored", t>> >>
               ELSE << <<"stored", t>>, <<"value", JsonValue(v)>> >>]

HasMember(text, name) == \E n \in 1..Len(text.members) : text.members[n][1] = name

\* item.<name> of JSON.parse(text), for a member that is there
Member(text, name) ==
  text.members[CHOOSE n \in 1..Len(text.members) : text.members[n][1] = name][2]

\* item.value: undefined when the member is missing
ItemValue(text) == IF HasMember(text, "value") THEN Member(text, "value") ELSE Undefined

\* new Date().getTime() - item.stored: NaN when item.stored is undefined
Since(text, t) ==
  IF HasMember(text, "stored")
  THEN [isNaN |-> FALSE, n |-> t - Member(text, "stored")]
  ELSE [isNaN |-> TRUE, n |-> 0]

\* a variant that counts the last millisecond of the lifetime as expired
expired_early(since, TTL) == ~since.isNaN /\ since.n >= TTL

\* since > TTL: every comparison with NaN is false
expired(since, TTL) == ~since.isNaN /\ since.n > TTL

\* if (itemJson): undefined is falsy, every stored text is a non-empty string
itemJsonTruthy(cell) == cell.present

----------------------------------------------------------------------------
(* Inputs *)

Keys == {<<"a">>, <<"a", "b">>}

\* clear(prefix): <<>> is the prefix left out (undefined) or '', both falsy
Prefixes == {<<>>, <<"a">>, <<"a", "b">>, <<"b">>}

\* keys of unrelated data in the same storage medium: one is the namespace
\* without its bar
ForeignKeys == {<<"x">>, <<"g", "m", "l", "i", "b">>}

BackendKeys == {NAMESPACE \o k : k \in Keys} \cup ForeignKeys

\* what a producer may yield
Values == {"'x'", "'y'", Null, Undefined, NaN}

\* the ttl argument of Cache: omitted, negative, 0, 1
TtlArgs == {Omitted, Num(-1), Num(0), Num(1)}

\* the instants the clock is observed at: 0, 1, and each TTL and the millisecond after it
Times == {0, 1} \cup UNION {{t * Millis, t * Millis + 1} : t \in {1, DefaultTtl}}

\* statuses GM_xmlhttpRequest may report to onload
Statuses == {199, 200, 299, 300}

\* f(): returns a value, throws, or returns a promise
Producers == [kind : {"returns"}, v : Values]
             \cup {[kind |-> "throws", v |-> "e"], [kind |-> "promise", v |-> Undefined]}

\* how the promise f returned settles
Settlements == [kind : {"resolves"}, v : Values] \cup {[kind |-> "rejects", v |-> "e"]}

----------------------------------------------------------------------------
(* State *)

Idle == [busy |-> FALSE, inst |-> 0, key |-> <<>>]

\* the shape of `last`; each operation fills in what it has
\*   op, inst, key, stype, ttl, quiet, status: the operation and its arguments
\*   invoked, produced: whether this step called f or resumed after it, and what f did
\*   promise, result, reason: the promise handed to the caller, its value or its reason
\*   threw: the error thrown to the caller; unhandled: the error that rejected only
\*   the promise of the async executor, which nobody holds
\*   removed: the entries clear() deleted
\*   code: the number a promise of GMXHR.get was rejected with
NoProduce == [kind |-> "none", v |-> Undefined]
NoOp == [op |-> "none", inst |-> 0, key |-> <<>>, stype |-> "", ttl |-> Omitted,
         quiet |-> FALSE, status |-> 0, invoked |-> FALSE, produced |-> NoProduce,
         promise |-> "none", result |-> Undefined, reason |-> "none", threw |-> "none",
         unhandled |-> "none", removed |-> {}, code |-> 0]

\* `last` for operation name called on instance i with the string argument key
Op(name, i, key) == [NoOp EXCEPT !.op = name, !.inst = i, !.key = key]

Line(level, msg) == [level |-> level, msg |-> msg]

\* debug(...): console.debug unless the binding was replaced by () => undefined
debugLine(msg) == IF debug = "log" THEN {Line("debug", msg)} ELSE {}
warnLine(msg) == {Line("warn", msg)}
errorLine(msg) == {Line("error", msg)}

Init ==
  /\ now = 0
  /\ debug = "log"
  /\ insts = <<>>
  /\ storage = [t \in StorageTypes |->
                  [k \in BackendKeys |->
                     IF k \in ForeignKeys
                     THEN [present |-> TRUE, parses |-> FALSE, members |-> <<>>]
                     ELSE Absent]]
  /\ owner = [t \in StorageTypes |-> [k \in BackendKeys |-> 0]]
  /\ awaiting = [c \in 1..MaxCalls |-> Idle]
  /\ xhr = "none"
  /\ console = {}
  /\ last = NoOp

----------------------------------------------------------------------------
(* The clock *)

Tick(t) ==
  /\ t > now
  /\ now' = t
  /\ console' = {}
  /\ last' = [NoOp EXCEPT !.op = "tick"]
  /\ UNCHANGED <<debug, insts, storage, owner, awaiting, xhr>>

----------------------------------------------------------------------------
(* function Cache(storageType, ttl, quiet) *)

\* const TTL = (ttl || 3600 * 24 * 2) * 1000
TTLof(ttl) == (IF TruthyNum(ttl) THEN ttl.n ELSE DefaultTtl) * Millis

\* a variant whose last branch returns a backend instead of throwing
chooseStorage_lenient(storageType) == TRUE

\* chooseStorage: does it return a backend (TRUE) or throw (FALSE)
chooseStorage(storageType) == storageType = "local" \/ storageType = "script"

Cache(storageType, ttl, quiet) ==
  /\ Len(insts) < MaxInst
  /\ debug' = IF quiet THEN "noop" ELSE debug
  /\ IF chooseStorage(storageType)
     THEN /\ insts' = Append(insts, [storageType |-> storageType, ttl |-> ttl,
                                     quiet |-> quiet, TTL |-> TTLof(ttl)])
          /\ last' = [NoOp EXCEPT !.op = "Cache", !.inst = Len(insts) + 1,
                                  !.stype = storageType, !.ttl = ttl, !.quiet = quiet]
     ELSE /\ insts' = insts
          /\ last' = [NoOp EXCEPT !.op = "Cache", !.stype = storageType, !.ttl = ttl,
                                  !.quiet = quiet, !.threw = "Invalid storage type!"]
  /\ console' = {}
  /\ UNCHANGED <<now, storage, owner, awaiting, xhr>>

----------------------------------------------------------------------------
(* The storage backends: siteStorage() and scriptStorage() *)

\* storage.get(key)
storageGet(type, key) == storage[type][key]

\* a variant that keeps the text a key already has
storageSet_once(st, type, key, value) ==
  IF st[type][key].present THEN st ELSE [st EXCEPT ![type][key] = value]

\* a variant in which both backends write to one shared store
storageSet_both(st, type, key, value) ==
  [t \in StorageTypes |-> [st[t] EXCEPT ![key] = value]]

\* storage.set(key, value): the medium after the call
storageSet(st, type, key, value) == [st EXCEPT ![type][key] = value]

\* a variant in which both backends delete from one shared store
storageDelete_shared(st, type, key) ==
  [t \in StorageTypes |-> [st[t] EXCEPT ![key] = Absent]]

\* storage.delete(key): the medium after the call
storageDelete(st, type, key) == [st EXCEPT ![type][key] = Absent]

\* storage.keys(): every key of the medium, namespaced or not
storageKeys(type) == {k \in BackendKeys : storage[type][k].present}

----------------------------------------------------------------------------
(* async function cache(key, f) *)

\* the entry under NAMESPACE + key is there, parses and is not expired
freshHit(i, key) ==
  LET itemJson == storageGet(insts[i].storageType, NAMESPACE \o key)
  IN  /\ itemJsonTruthy(itemJson)
      /\ itemJson.parses
      /\ ~expired(Since(itemJson, now), insts[i].TTL)

\* a variant that refuses undefined only
cacheable_loose(value) == value # Undefined

\* value !== undefined && value !== null
cacheable(value) == value # Undefined /\ value # Null

\* lines 132-140: write the value unless it is null or undefined, then resolve(value)
StoreAndResolve(op, i, key, produced, lines) ==
  LET type == insts[i].storageType
      bkey == NAMESPACE \o key
      value == produced.v
  IN  /\ IF cacheable(value)
         THEN /\ storage' = storageSet(storage, type, bkey, JSONstringify(now, value))
              /\ owner' = [owner EXCEPT ![type][bkey] = i]
              /\ console' = lines
         ELSE /\ UNCHANGED <<storage, owner>>
              /\ console' = lines \cup warnLine("Refusing to cache null or undefined")
      /\ last' = [Op(op, i, key) EXCEPT !.invoked = TRUE, !.produced = produced,
                                        !.promise = "fulfilled", !.result = value]

\* the lowest free slot for a suspended call
FreeSlot == CHOOSE c \in 1..MaxCalls :
              ~awaiting[c].busy /\ \A d \in 1..(c - 1) : awaiting[d].busy

\* cache(key, f) on instance i, up to its return or its suspension at `await value`
cache(i, key, f) ==
  LET itemJson == storageGet(insts[i].storageType, NAMESPACE \o key)
      call == Op("cache", i, key)
      miss == debugLine("Cache miss")
  IN
  /\ i \in 1..Len(insts)
  /\ UNCHANGED <<now, debug, insts, xhr>>
  /\ IF itemJsonTruthy(itemJson) /\ ~itemJson.parses
     THEN \* JSON.parse throws inside the async executor: the promise stays pending
          /\ last' = [call EXCEPT !.promise = "pending", !.unhandled = "SyntaxError"]
          /\ console' = {}
          /\ UNCHANGED <<storage, owner, awaiting>>
     ELSE IF freshHit(i, key)
     THEN /\ last' = [call EXCEPT !.promise = "fulfilled", !.result = ItemValue(itemJson)]
          /\ console' = {}
          /\ UNCHANGED <<storage, owner, awaiting>>
     ELSE CASE f.kind = "throws" ->
               \* f throws inside the async executor: resolve is never called
               /\ last' = [call EXCEPT !.invoked = TRUE, !.produced = f,
                                       !.promise = "pending", !.unhandled = f.v]
               /\ console' = miss
               /\ UNCHANGED <<storage, owner, awaiting>>
            [] f.kind = "returns" ->
               /\ StoreAndResolve("cache", i, key, f, miss)
               /\ UNCHANGED awaiting
            [] f.kind = "promise" ->
               /\ \E c \in 1..MaxCalls : ~awaiting[c].busy
               /\ awaiting' = [awaiting EXCEPT ![FreeSlot] =
                                  [busy |-> TRUE, inst |-> i, key |-> key]]
               /\ last' = [call EXCEPT !.invoked = TRUE, !.produced = f,
                                       !.promise = "pending"]
               /\ console' = miss
               /\ UNCHANGED <<storage, owner>>

\* the promise f returned settles and the call suspended in slot c goes on
settle(c, how) ==
  /\ awaiting[c].busy
  /\ awaiting' = [awaiting EXCEPT ![c] = Idle]
  /\ UNCHANGED <<now, debug, insts, xhr>>
  /\ IF how.kind = "resolves"
     THEN StoreAndResolve("resume", awaiting[c].inst, awaiting[c].key, how, {})
     ELSE \* await throws inside the async executor: resolve is never called
          /\ last' = [Op("resume", awaiting[c].inst, awaiting[c].key) EXCEPT
                         !.invoked = TRUE, !.produced = how, !.promise = "pending",
                         !.unhandled = how.v]
          /\ console' = {}
          /\ UNCHANGED <<storage, owner>>

----------------------------------------------------------------------------
(* The medium as the cache does not expect it *)

\* texts under a namespaced key that cache did not write: one JSON.parse
\* rejects, and one that parses to an object without a stored timestamp
Garbage == [present |-> TRUE, parses |-> FALSE, members |-> <<>>]
NoStamp == [present |-> TRUE, parses |-> TRUE, members |-> << <<"value", "'y'">> >>]
Malformed == {Garbage, NoStamp}

\* other code of the page sets localStorage[NAMESPACE + key] = text
foreignWrite(key, text) ==
  /\ storage' = [storage EXCEPT !["local"][NAMESPACE \o key] = text]
  /\ owner' = [owner EXCEPT !["local"][NAMESPACE \o key] = 0]
  /\ console' = {}
  /\ last' = [NoOp EXCEPT !.op = "foreign", !.key = key, !.stype = "local"]
  /\ UNCHANGED <<now, debug, insts, awaiting, xhr>>

\* cache(key, f) on instance i when storage.get throws: the error is thrown
\* inside the async executor, resolve is never called
cacheGetThrows(i, key) ==
  /\ i \in 1..Len(insts)
  /\ last' = [Op("cache", i, key) EXCEPT !.promise = "pending",
                                         !.unhandled = "storage.get"]
  /\ console' = {}
  /\ UNCHANGED <<now, debug, insts, storage, owner, awaiting, xhr>>

\* cache(key, f) on instance i when f returns a value to store and storage.set
\* throws (a full localStorage): nothing is written, resolve is never called
cacheSetThrows(i, key, f) ==
  LET itemJson == storageGet(insts[i].storageType, NAMESPACE \o key)
  IN  /\ i \in 1..Len(insts)
      /\ ~(itemJsonTruthy(itemJson) /\ ~itemJson.parses)
      /\ ~freshHit(i, key)
      /\ f.kind = "returns" /\ cacheable(f.v)
      /\ last' = [Op("cache", i, key) EXCEPT !.invoked = TRUE, !.produced = f,
                                             !.promise = "pending",
                                             !.unhandled = "storage.set"]
      /\ console' = debugLine("Cache miss")
      /\ UNCHANGED <<now, debug, insts, storage, owner, awaiting, xhr>>

\* the call suspended in slot c goes on with a value to store and storage.set throws
settleSetThrows(c, how) ==
  /\ awaiting[c].busy
  /\ how.kind = "resolves" /\ cacheable(how.v)
  /\ awaiting' = [awaiting EXCEPT ![c] = Idle]
  /\ last' = [Op("resume", awaiting[c].inst, awaiting[c].key) EXCEPT
                 !.invoked = TRUE, !.produced = how, !.promise = "pending",
                 !.unhandled = "storage.set"]
  /\ console' = {}
  /\ UNCHANGED <<now, debug, insts, storage, owner, xhr>>

----------------------------------------------------------------------------
(* cache.clear = function clear(prefix) *)

\* a variant that matches the whole key instead of its beginning
clearFilter_equal(type, prefix) ==
  {k \in storageKeys(type) : k = NAMESPACE \o prefix}

\* a variant that forgets the namespace
clearFilter_any(type, prefix) == storageKeys(type)

\* a variant that forgets the prefix
clearFilter_all(type, prefix) ==
  {k \in storageKeys(type) : startsWith(k, NAMESPACE)}

\* storage.keys().filter(k => k.startsWith(keyPrefix))
clearFilter(type, prefix) ==
  LET keyPrefix == NAMESPACE \o prefix
  IN  {k \in storageKeys(type) : startsWith(k, keyPrefix)}

\* .forEach(storage.delete): the medium after every key of ks is deleted
RECURSIVE forEachDelete(_, _, _)
forEachDelete(st, type, ks) ==
  IF ks = {} THEN st
  ELSE LET k == CHOOSE x \in ks : TRUE
       IN  forEachDelete(storageDelete(st, type, k), type, ks \ {k})

\* a variant that also abandons the calls of the instance awaiting their producer
clear_cancelling(i, prefix) ==
  LET type == insts[i].storageType
      doomed == clearFilter(type, prefix)
  IN
  /\ i \in 1..Len(insts)
  /\ console' = IF TruthyStr(prefix)
                THEN debugLine("Clearing all cached items with prefix")
                ELSE debugLine("Clearing all cached items")
  /\ storage' = forEachDelete(storage, type, doomed)
  /\ owner' = [t \in StorageTypes |-> [k \in BackendKeys |->
                 IF storage'[t][k].present THEN owner[t][k] ELSE 0]]
  /\ awaiting' = [c \in 1..MaxCalls |->
                    IF awaiting[c].inst = i THEN Idle ELSE awaiting[c]]
  /\ last' = [Op("clear", i, prefix) EXCEPT
                 !.removed = {[key |-> k, text |-> storage[type][k],
                               owner |-> owner[type][k]] : k \in doomed}]
  /\ UNCHANGED <<now, debug, insts, xhr>>

clear(i, prefix) ==
  LET type == insts[i].storageType
      doomed == clearFilter(type, prefix)
  IN
  /\ i \in 1..Len(insts)
  /\ console' = IF TruthyStr(prefix)
                THEN debugLine("Clearing all cached items with prefix")
                ELSE debugLine("Clearing all cached items")
  /\ storage' = forEachDelete(storage, type, doomed)
  /\ owner' = [t \in StorageTypes |-> [k \in BackendKeys |->
                 IF storage'[t][k].present THEN owner[t][k] ELSE 0]]
  /\ last' = [Op("clear", i, prefix) EXCEPT
                 !.removed = {[key |-> k, text |-> storage[type][k],
                               owner |-> owner[type][k]] : k \in doomed}]
  /\ UNCHANGED <<now, debug, insts, awaiting, xhr>>

----------------------------------------------------------------------------
(* GMXHR.get(url, headers) *)

GMXHRget ==
  /\ xhr = "none"
  /\ xhr' = "pending"
  /\ console' = debugLine("GMXHR GET")
  /\ last' = [NoOp EXCEPT !.op = "get", !.promise = "pending"]
  /\ UNCHANGED <<now, debug, insts, storage, owner, awaiting>>

\* the onload callback handed to GM_xmlhttpRequest
onload(status) ==
  /\ xhr = "pending"
  /\ xhr' = "none"
  /\ IF status >= 200 /\ status < 300
     THEN /\ last' = [NoOp EXCEPT !.op = "onload", !.status = status,
                                  !.promise = "fulfilled", !.result = "responseText"]
          /\ console' = {}
     ELSE /\ last' = [NoOp EXCEPT !.op = "onload", !.status = status,
                                  !.promise = "rejected", !.reason = "status",
                                  !.code = status]
          /\ console' = errorLine("Failed to get")
  /\ UNCHANGED <<now, debug, insts, storage, owner, awaiting>>

\* the request ends without a response (network error, timeout, abort):
\* GM_xmlhttpRequest calls onerror, ontimeout or onabort, none of which is
\* given, so neither resolve nor reject runs
onerror ==
  /\ xhr = "pending"
  /\ xhr' = "none"
  /\ console' = {}
  /\ last' = [NoOp EXCEPT !.op = "onerror", !.promise = "pending"]
  /\ UNCHANGED <<now, debug, insts, storage, owner, awaiting>>

----------------------------------------------------------------------------

\* the number of cache() calls suspended at `await value`
Suspended == Cardinality({c \in 1..MaxCalls : awaiting[c].busy})

\* the steps of the cache with their inputs drawn from the sets of S
CacheSteps(S) ==
  \/ \E t \in S.times : Tick(t)
  \/ \E type \in S.types, ttl \in S.ttls, quiet \in S.quiets :
       Len(insts) < S.insts /\ Cache(type, ttl, quiet)
  \/ \E i \in 1..MaxInst, key \in S.keys, f \in S.producers :
       (f.kind = "promise" => Suspended < S.calls) /\ cache(i, key, f)
  \/ \E c \in 1..MaxCalls, how \in S.settlements : settle(c, how)
  \/ \E i \in 1..MaxInst, prefix \in S.prefixes : clear(i, prefix)

\* the steps of the HTTP client
HttpSteps ==
  \/ GMXHRget
  \/ \E status \in Statuses : onload(status)
  \/ onerror

\* the steps in which the medium holds foreign text or throws
BackendSteps(S) ==
  \/ \E key \in S.keys, text \in Malformed : foreignWrite(key, text)
  \/ \E i \in 1..MaxInst, key \in S.keys : cacheGetThrows(i, key)
  \/ \E i \in 1..MaxInst, key \in S.keys, f \in S.producers : cacheSetThrows(i, key, f)
  \/ \E c \in 1..MaxCalls, how \in S.settlements : settleSetThrows(c, how)

ProducersOf(V) == {f \in Producers : f.kind = "returns" => f.v \in V}
SettlementsOf(V) == {h \in Settlements : h.kind = "resolves" => h.v \in V}

\* one instance, one key: every ttl argument, every instant, every producer
TimingScope ==
  [times |-> Times, types |-> {"local", "session"}, ttls |-> TtlArgs, quiets |-> {FALSE},
   insts |-> 1, keys |-> {<<"a">>}, producers |-> Producers, calls |-> MaxCalls,
   settlements |-> Settlements, prefixes |-> {<<>>}]

\* several instances on both media, several keys and prefixes
SharingScope ==
  [times |-> {0, Millis + 1}, types |-> StorageTypes, ttls |-> {Num(1)},
   quiets |-> {FALSE}, insts |-> MaxInst, keys |-> Keys,
   producers |-> {f \in ProducersOf({"'x'"}) : f.kind # "throws"}, calls |-> 1,
   settlements |-> {h \in SettlementsOf({"'x'"}) : h.kind = "resolves"},
   prefixes |-> Prefixes]

\* logging: quiet and loud instances beside the HTTP client
LoggingScope ==
  [times |-> {0, 1}, types |-> StorageTypes \cup {"session"}, ttls |-> {Omitted},
   quiets |-> BOOLEAN, insts |-> MaxInst, keys |-> {<<"a">>},
   producers |-> ProducersOf({"'x'", Null}), calls |-> 1,
   settlements |-> SettlementsOf({"'x'", Null}), prefixes |-> {<<>>, <<"a">>}]

\* one local instance, one key, a medium that holds foreign text or throws
BackendScope ==
  [times |-> {0, 1, Millis + 1}, types |-> {"local"}, ttls |-> {Omitted, Num(1)},
   quiets |-> {FALSE}, insts |-> 1, keys |-> {<<"a">>},
   producers |-> ProducersOf({"'x'"}), calls |-> 1,
   settlements |-> SettlementsOf({"'x'"}), prefixes |-> {<<>>}]

Next == CacheSteps(TimingScope)
NextSharing == CacheSteps(SharingScope)
NextLogging == CacheSteps(LoggingScope) \/ HttpSteps
NextBackend == CacheSteps(BackendScope) \/ BackendSteps(BackendScope)

Spec == Init /\ [][Next]_vars
SpecSharing == Init /\ [][NextSharing]_vars
SpecLogging == Init /\ [][NextLogging]_vars
SpecBackend == Init /\ [][NextBackend]_vars

----------------------------------------------------------------------------
(* Properties.  Each names the step it is about by `last` after the step.  *)

\* the text stored under NAMESPACE + key in the medium of instance i
Entry(i, key) == storage[insts[i].storageType][NAMESPACE \o key]

\* the text is an entry: it parses and has a stored timestamp
IsEntry(text) == text.present /\ text.parses /\ HasMember(text, "stored")

StoredAt(text) == Member(text, "stored")

\* C1: a cache(k, f) call that finds an entry under "gmlib|" + k with
\* now - stored <= TTL resolves with the entry's value, does not invoke f and
\* leaves both storage media as they were.
C1_FreshHit ==
  [][\A i \in 1..Len(insts), key \in Keys :
       (/\ last'.op = "cache" /\ last'.inst = i /\ last'.key = key
        /\ IsEntry(Entry(i, key))
        /\ now - StoredAt(Entry(i, key)) <= insts[i].TTL)
       => /\ last'.promise = "fulfilled"
          /\ last'.result = ItemValue(Entry(i, key))
          /\ ~last'.invoked
          /\ storage' = storage]_vars

\* a hit on an entry in the last millisecond of its lifetime
C1_Witness ==
  /\ last.op = "cache" /\ last.promise = "fulfilled" /\ ~last.invoked
  /\ IsEntry(Entry(last.inst, last.key))
  /\ now > 0
  /\ now - StoredAt(Entry(last.inst, last.key)) = insts[last.inst].TTL

\* the lifetime the ttl argument asks for, in milliseconds: 172800 seconds when omitted
AskedLifetime(ttl) == (IF ttl.given THEN ttl.n ELSE DefaultTtl) * Millis

\* C2: for every ttl argument t, 0 and the omitted one (172800) included, a read
\* T' - T <= t after the write is served without calling the producer, and a read
\* with T' - T > t calls the producer again.
C2_TtlWindow ==
  [][\A i \in 1..Len(insts), key \in Keys :
       (/\ last'.op = "cache" /\ last'.inst = i /\ last'.key = key
        /\ IsEntry(Entry(i, key)))
       => (last'.invoked <=>
             now - StoredAt(Entry(i, key)) > AskedLifetime(insts[i].ttl))]_vars

\* the step left `last`: a cache(key, f) call on instance i, or its resumption
CallOn(l, i, key) == l.op \in {"cache", "resume"} /\ l.inst = i /\ l.key = key

\* in that step the producer threw, or the promise it had returned was rejected
Failed(l) == l.produced.kind \in {"throws", "rejects"}

\* in that step the producer yielded the value v, at once or through its promise
Yielded(l, v) == l.produced.kind \in {"returns", "resolves"} /\ l.produced.v = v

\* an entry for key is there and within the TTL of instance i
Fresh(i, key) ==
  /\ IsEntry(Entry(i, key))
  /\ now - StoredAt(Entry(i, key)) <= insts[i].TTL

\* C3: when cache(k, f) misses and f throws or its promise rejects with e, the
\* promise cache(k, f) returned is rejected with that e, and no entry is written.
C3_ProducerFailure ==
  [][\A i \in 1..Len(insts), key \in Keys :
       (CallOn(last', i, key) /\ Failed(last'))
       => /\ last'.promise = "rejected"
          /\ last'.reason = last'.produced.v
          /\ storage' = storage]_vars

\* C4: when cache(k, f) misses and f yields null or undefined, the call resolves
\* with that value and writes nothing; no fresh entry is left behind, and the
\* next cache(k, f) call, the entry still not fresh, invokes f again.
C4_NullRefusal ==
  [][\A i \in 1..Len(insts), key \in Keys :
       /\ (CallOn(last', i, key) /\ \E v \in {Null, Undefined} : Yielded(last', v))
          => /\ last'.promise = "fulfilled"
             /\ last'.result = last'.produced.v
             /\ storage' = storage
             /\ (last'.op = "cache" => ~Fresh(i, key)')
       /\ (/\ CallOn(last, i, key) /\ \E v \in {Null, Undefined} : Yielded(last, v)
           /\ ~Fresh(i, key)
           /\ last'.op = "cache" /\ last'.inst = i /\ last'.key = key)
          => last'.invoked]_vars

\* a producer returned null on a miss: resolved with null, no entry for the key
C4_Witness ==
  /\ last.op = "cache" /\ Yielded(last, Null)
  /\ last.promise = "fulfilled" /\ last.result = Null
  /\ ~Entry(last.inst, last.key).present

\* C5 as stated: a cache(k, f) call right after a cache(k, f) call that resolved
\* does not invoke f and resolves with the same value, for every producer f.
C5_TwiceInSuccession ==
  [][\A i \in 1..Len(insts), key \in Keys :
       (/\ CallOn(last, i, key) /\ last.promise = "fulfilled"
        /\ last'.op = "cache" /\ last'.inst = i /\ last'.key = key)
       => /\ ~last'.invoked
          /\ last'.promise = "fulfilled"
          /\ last'.result = last.result]_vars

\* C5 amended: on an instance whose TTL is not negative, a cache(k, f) call right
\* after a cache(k, f) call that resolved, and whose producer (if it ran) yielded
\* a value other than null, undefined and NaN, does not invoke f and resolves with
\* the same value.
C5_TwiceInSuccessionStored ==
  [][\A i \in 1..Len(insts), key \in Keys :
       (/\ CallOn(last, i, key) /\ last.promise = "fulfilled"
        /\ (last.invoked => last.result \notin {Null, Undefined, NaN})
        /\ insts[i].TTL >= 0
        /\ last'.op = "cache" /\ last'.inst = i /\ last'.key = key)
       => /\ ~last'.invoked
          /\ last'.promise = "fulfilled"
          /\ last'.result = last.result]_vars

\* a hit in the very millisecond in which the entry was written
C5_Witness ==
  /\ last.op = "cache" /\ ~last.invoked
  /\ last.promise = "fulfilled" /\ last.result = "'x'"
  /\ IsEntry(Entry(last.inst, last.key))
  /\ StoredAt(Entry(last.inst, last.key)) = now
  /\ now > 0

\* the medium of the instance that made the call `last` describes
TypeOf(l) == insts[l.inst].storageType

\* the step left `last`: clear() without a prefix / clear(prefix) with one
ClearAll(l) == l.op = "clear" /\ ~TruthyStr(l.key)
ClearPrefix(l) == l.op = "clear" /\ TruthyStr(l.key)

\* C6: clear() with no prefix deletes every entry written through that instance,
\* fresh and expired alike, and the next cache(k, f) for such a key invokes f.
C6_ClearAll ==
  [][/\ ClearAll(last') =>
          \A k \in BackendKeys :
            owner[TypeOf(last')][k] = last'.inst => ~storage'[TypeOf(last')][k].present
     /\ \A key \in Keys :
          (/\ ClearAll(last)
           /\ \E r \in last.removed : r.key = NAMESPACE \o key /\ r.owner = last.inst
           /\ last'.op = "cache" /\ last'.inst = last.inst /\ last'.key = key)
          => last'.invoked]_vars

\* clear() has deleted a fresh and an expired entry of the instance
C6_Witness ==
  /\ ClearAll(last)
  /\ \E r \in last.removed :
       r.owner = last.inst /\ now - StoredAt(r.text) <= insts[last.inst].TTL
  /\ \E r \in last.removed :
       r.owner = last.inst /\ now - StoredAt(r.text) > insts[last.inst].TTL

\* C7: clear(prefix) with a non-empty prefix deletes exactly the entries whose
\* caller-supplied key starts with prefix; every other entry, and every other
\* key of either medium, is left as it was.
C7_ClearPrefix ==
  [][ClearPrefix(last') =>
       /\ \A key \in Keys :
            storage'[TypeOf(last')][NAMESPACE \o key] =
              IF startsWith(key, last'.key) THEN Absent
              ELSE storage[TypeOf(last')][NAMESPACE \o key]
       /\ \A k \in ForeignKeys : storage'[TypeOf(last')][k] = storage[TypeOf(last')][k]
       /\ \A t \in StorageTypes \ {TypeOf(last')} : storage'[t] = storage[t]]_vars

\* clear("ab") has deleted the entry of "ab" and left the entry of "a"
C7_Witness ==
  /\ ClearPrefix(last) /\ last.key = <<"a", "b">>
  /\ last.removed # {}
  /\ IsEntry(storage[TypeOf(last)][NAMESPACE \o <<"a">>])

\* C8 as stated: clear() on one instance deletes the entries written through it
\* and no entry written through another instance.
C8_ClearOwnOnly ==
  [][ClearAll(last') =>
       \A t \in StorageTypes, k \in BackendKeys :
         /\ (t = TypeOf(last') /\ owner[t][k] = last'.inst) => ~storage'[t][k].present
         /\ owner[t][k] \notin {0, last'.inst} => storage'[t][k] = storage[t][k]]_vars

\* C8 amended: clear() on one instance deletes the entries written through it and
\* through every other instance of the same storage type, and no entry written
\* through an instance of the other storage type.
C8_ClearOwnMedium ==
  [][ClearAll(last') =>
       \A t \in StorageTypes, k \in BackendKeys :
         /\ (t = TypeOf(last') /\ owner[t][k] # 0) => ~storage'[t][k].present
         /\ t # TypeOf(last') => storage'[t][k] = storage[t][k]]_vars

\* clear() has deleted an entry written through another instance of its storage type
C8_Witness ==
  /\ ClearAll(last)
  /\ \E r \in last.removed :
       r.owner \notin {0, last.inst} /\ insts[r.owner].storageType = TypeOf(last)

\* C9: quiet silences the debug lines of that instance only: a miss on an instance
\* constructed without quiet, and every GMXHR.get, still write their debug line,
\* a quiet instance writes none, and the warning of a refused value is always written.
C9_QuietPerInstance ==
  [][/\ (last'.op = "cache" /\ last'.invoked) =>
          (Line("debug", "Cache miss") \in console' <=> ~insts[last'.inst].quiet)
     /\ last'.op = "get" => Line("debug", "GMXHR GET") \in console'
     /\ (last'.op \in {"cache", "resume"}
           /\ \E v \in {Null, Undefined} : Yielded(last', v)) =>
          Line("warn", "Refusing to cache null or undefined") \in console']_vars

\* C10: Cache(storageType, ...) throws and returns no instance unless storageType
\* is "local" or "script"; with one of these it returns an instance on that medium.
C10_StorageType ==
  [][last'.op = "Cache" =>
       IF last'.stype \in {"local", "script"}
       THEN /\ last'.threw = "none"
            /\ Len(insts') = Len(insts) + 1
            /\ last'.inst = Len(insts')
            /\ insts'[Len(insts')].storageType = last'.stype
            /\ SubSeq(insts', 1, Len(insts)) = insts
       ELSE /\ last'.threw # "none"
            /\ last'.inst = 0
            /\ insts' = insts]_vars

\* Cache("session") has thrown after an instance had been constructed
C10_Witness ==
  /\ last.op = "Cache" /\ last.stype = "session" /\ last.threw # "none"
  /\ Len(insts) > 0

\* the producer results JSON can carry: strings and null (NaN and undefined are not)
JsonSerializable == {"'x'", "'y'", Null}

\* C11 as stated: after a miss whose producer gave a JSON-serializable v, the
\* next cache call for the same key, made within the TTL, resolves with v.
C11_RoundTrip ==
  [][\A i \in 1..Len(insts), key \in Keys, v \in JsonSerializable :
       (/\ CallOn(last, i, key) /\ last.invoked /\ Yielded(last, v)
        /\ 0 <= insts[i].TTL
        /\ last'.op = "cache" /\ last'.inst = i /\ last'.key = key)
       => /\ last'.promise = "fulfilled"
          /\ last'.result = v]_vars

\* C11: round trip for every JSON-serializable v other than null.  A miss
\* whose producer gives v stores a text that reads back as v, stamped with the
\* time of the write; the next call for the key within the TTL resolves with v;
\* and every hit, however much later, resolves with what the stored text reads
\* back as, so with v while that entry is the one stored.
C11_RoundTripStored ==
  [][\A i \in 1..Len(insts), key \in Keys :
       /\ \A v \in JsonSerializable \ {Null} :
            /\ (CallOn(last', i, key) /\ last'.invoked /\ Yielded(last', v))
               => /\ IsEntry(Entry(i, key)')
                  /\ ItemValue(Entry(i, key)') = v
                  /\ StoredAt(Entry(i, key)') = now
            /\ (/\ CallOn(last, i, key) /\ last.invoked /\ Yielded(last, v)
                /\ 0 <= insts[i].TTL
                /\ last'.op = "cache" /\ last'.inst = i /\ last'.key = key)
               => /\ last'.promise = "fulfilled"
                  /\ last'.result = v
       /\ (/\ last'.op = "cache" /\ last'.inst = i /\ last'.key = key
           /\ ~last'.invoked /\ last'.promise = "fulfilled")
          => /\ IsEntry(Entry(i, key))
             /\ last'.result = ItemValue(Entry(i, key))
             /\ storage' = storage]_vars

\* a later call, after time has passed, is served the string the producer gave
C11_Witness ==
  /\ last.op = "cache" /\ ~last.invoked /\ last.promise = "fulfilled"
  /\ last.result = "'y'"
  /\ IsEntry(Entry(last.inst, last.key))
  /\ now > StoredAt(Entry(last.inst, last.key))

\* C12: instances of different storage types never observe each other's
\* entries.  A cache call, its continuation or a clear on one instance leaves
\* the other medium exactly as it was; a hit is served from an entry of the
\* instance's own medium, written through an instance of that storage type;
\* and clear deletes only entries written through that storage type.
C12_StorageIsolation ==
  [][\A i \in 1..Len(insts) :
       (last'.op \in {"cache", "resume", "clear"} /\ last'.inst = i)
       => /\ \A t \in StorageTypes \ {insts[i].storageType} :
               storage'[t] = storage[t] /\ owner'[t] = owner[t]
          /\ (last'.op = "cache" /\ ~last'.invoked /\ last'.promise = "fulfilled")
             => /\ IsEntry(Entry(i, last'.key))
                /\ last'.result = ItemValue(Entry(i, last'.key))
                /\ owner[insts[i].storageType][NAMESPACE \o last'.key] \in 1..Len(insts)
                /\ insts[owner[insts[i].storageType][NAMESPACE \o last'.key]].storageType
                      = insts[i].storageType
          /\ last'.op = "clear"
             => \A r \in last'.removed :
                  r.owner # 0 => insts[r.owner].storageType = insts[i].storageType]_vars

\* a call on one instance misses although the other medium holds a fresh entry
\* for the same key, and a clear on one instance leaves the other's entry
C12_Witness ==
  /\ last.op = "cache" /\ last.invoked
  /\ \E t \in StorageTypes \ {TypeOf(last)} :
       /\ IsEntry(storage[t][NAMESPACE \o last.key])
       /\ now - StoredAt(storage[t][NAMESPACE \o last.key]) <= insts[last.inst].TTL
       /\ owner[t][NAMESPACE \o last.key] # last.inst

\* C13: GMXHR.get resolves with the response text when the status is in
\* [200, 300) and rejects with the numeric status for every other outcome of
\* the request.
C13_GetOutcome ==
  [][last'.op \in {"onload", "onerror"}
     => IF last'.op = "onload" /\ last'.status >= 200 /\ last'.status < 300
        THEN last'.promise = "fulfilled" /\ last'.result = "responseText"
        ELSE last'.promise = "rejected" /\ last'.code = last'.status]_vars

\* the errors a backend call may throw
BackendErrors == {"storage.get", "storage.set"}

\* C14: a text under "gmlib|" + k that is present but is not a well-formed
\* entry (it does not parse, or it has no stored timestamp) is a miss:
\* cache(k, f) invokes f, resolves with what f returns and overwrites the text.
C14_MalformedIsMiss ==
  [][\A i \in 1..Len(insts), key \in Keys :
       (/\ last'.op = "cache" /\ last'.inst = i /\ last'.key = key
        /\ last'.unhandled \notin BackendErrors
        /\ Entry(i, key).present /\ ~IsEntry(Entry(i, key)))
       => /\ last'.invoked
          /\ \A v \in Values :
               (last'.produced.kind = "returns" /\ last'.produced.v = v)
               => /\ last'.promise = "fulfilled" /\ last'.result = v
                  /\ cacheable(v) => Entry(i, key)' = JSONstringify(now, v)]_vars

\* C15: when storage.get or storage.set throws during cache(k, f), the
\* returned promise is rejected with that error.
C15_BackendFailure ==
  [][(last'.op \in {"cache", "resume"} /\ last'.unhandled \in BackendErrors)
     => last'.promise = "rejected" /\ last'.reason = last'.unhandled]_vars

\* a call of instance i for key is suspended at `await value`
InFlight(i, key) ==
  \E c \in 1..MaxCalls : awaiting[c].busy /\ awaiting[c].inst = i /\ awaiting[c].key = key

\* C16: no single-flight.  A cache(k, f) call made on a miss while another
\* call for k is still awaiting its producer invokes f all the same; each
\* call whose producer resolves with a value to store writes its own entry
\* over whatever is there, so when two such calls resolve one after the other
\* the entry stored is the one of the call that resolved last.
C16_NoSingleFlight ==
  [][\A i \in 1..Len(insts), key \in Keys :
       /\ (/\ last'.op = "cache" /\ last'.inst = i /\ last'.key = key
           /\ InFlight(i, key) /\ ~Fresh(i, key))
          => last'.invoked
       /\ \A v \in Values :
            (/\ last'.op = "resume" /\ last'.inst = i /\ last'.key = key
             /\ Yielded(last', v) /\ cacheable(v))
            => /\ last'.promise = "fulfilled" /\ last'.result = v
               /\ Entry(i, key)' = JSONstringify(now, v)
               /\ owner'[insts[i].storageType][NAMESPACE \o key] = i]_vars

\* two calls for one key were in flight and both have invoked the producer: one
\* has resolved and written 'x', the other is still awaiting and will write over it
C16_Witness ==
  /\ last.op = "resume" /\ Yielded(last, "'x'")
  /\ InFlight(last.inst, last.key)
  /\ ItemValue(Entry(last.inst, last.key)) = "'x'"
  /\ owner[TypeOf(last)][NAMESPACE \o last.key] = last.inst

\* C17: clear() run while a cache(k, f) miss awaits its producer does not
\* cancel the call: the calls in flight are the same after clear as before;
\* when the producer then resolves with a value to store, the call writes its
\* entry, so after a completed clear() a fresh entry for k is there; and a
\* clear() that comes after the write instead leaves no entry for k.
C17_ClearCacheRace ==
  [][\A i \in 1..Len(insts), key \in Keys :
       /\ (last'.op = "clear" /\ last'.inst = i) => awaiting' = awaiting
       /\ \A v \in Values :
            /\ (/\ last.op = "clear" /\ last.inst = i /\ InFlight(i, key)
                /\ last'.op = "resume" /\ last'.inst = i /\ last'.key = key
                /\ Yielded(last', v) /\ cacheable(v))
               => /\ last'.promise = "fulfilled" /\ last'.result = v
                  /\ Entry(i, key)' = JSONstringify(now, v)
                  /\ (0 <= insts[i].TTL => Fresh(i, key)')
            /\ (/\ CallOn(last, i, key) /\ Yielded(last, v) /\ cacheable(v)
                /\ ClearAll(last') /\ last'.inst = i)
               => /\ Entry(i, key) = JSONstringify(now, v)
                  /\ ~Entry(i, key)'.present]_vars

\* clear() has just deleted an entry for the key while a call for that key is
\* awaiting its producer
C17_Witness ==
  /\ ClearAll(last) /\ last.removed # {}
  /\ InFlight(last.inst, <<"a">>)
  /\ ~Entry(last.inst, <<"a">>).present

\* C18: every cache(k, f) call whose producer returns a value, or a promise
\* that resolves, resolves with the stored or the freshly produced value: with
\* the value f returned in the step of the call, with the value the promise
\* resolved with in the step that resumes the call.  A call on a miss whose
\* producer promise has not resolved is not resolved and has written nothing,
\* and stays suspended until its promise settles.
C18_Response ==
  [][/\ (last'.op \in {"cache", "resume"}
         /\ last'.produced.kind \in {"returns", "resolves"})
        => last'.promise = "fulfilled" /\ last'.result = last'.produced.v
     /\ (last'.op = "cache" /\ last'.produced.kind = "promise")
        => last'.promise = "pending" /\ storage' = storage
     /\ \A c \in 1..MaxCalls :
          (awaiting[c].busy /\ last'.op # "resume") => awaiting'[c] = awaiting[c]]_vars

\* C19: every entry persisted under "gmlib|" reads back with a value that is
\* present and is not null, whatever the producers gave.
C19_StoredValue ==
  \A t \in StorageTypes, key \in Keys :
    LET text == storage[t][NAMESPACE \o key]
    IN  text.present
        => /\ text.parses
           /\ HasMember(text, "value")
           /\ ItemValue(text) \notin {Null, Undefined}

\* C20: cache(k, f) and clear(prefix) never create, overwrite or delete a
\* backend key that does not start with "gmlib|", in either medium, and a
\* cache(k, f) call or its continuation changes at most the one key
\* "gmlib|" + k of the medium of its instance.
C20_NamespaceFrame ==
  [][\A i \in 1..Len(insts) :
       (last'.op \in {"cache", "resume", "clear"} /\ last'.inst = i)
       => \A t \in StorageTypes, k \in BackendKeys :
            /\ ~startsWith(k, NAMESPACE) => storage'[t][k] = storage[t][k]
            /\ (last'.op # "clear" /\ storage'[t][k] # storage[t][k])
               => t = insts[i].storageType /\ k = NAMESPACE \o last'.key]_vars

\* clear() has deleted entries and the keys of other data in the same medium,
\* "gmlib" without the bar among them, are still there
C20_Witness ==
  /\ ClearAll(last) /\ last.removed # {}
  /\ \A k \in ForeignKeys : storage[TypeOf(last)][k].present
  /\ \A k \in BackendKeys \ ForeignKeys : ~storage[TypeOf(last)][k].present

====
